---- MODULE Spec2Model ----
(***************************************************************************)
(* Model of the IOPort<RegisterType, BitsCount> class template of          *)
(* ioport.h.  The three registers the port points at (DDR, PORT, PIN) are  *)
(* the state; every public member function is one action.  An action      *)
(* records the call (op, bitNumber, value, bitValue), its outcome (err,    *)
(* retValue, retBool) and the register contents it was called on (preDDR,  *)
(* prePORT, prePIN), so that the contract of a call is a state predicate.  *)
(*                                                                         *)
(* RegisterType is an unsigned type of regBits bits, narrower than int, so *)
(* that the integer promotions of the C++ expressions are exact and the    *)
(* only truncation is the store back into a RegisterType object.           *)
(***************************************************************************)
EXTENDS Integers, FiniteSets, Sequences, TLC

VARIABLES regBits, BitsCount, DDR, PORT, PIN,
          resDDR, resPORT,
          op, bitNumber, value, bitValue,
          err, retValue, retBool,
          preDDR, prePORT, prePIN

vars == <<regBits, BitsCount, DDR, PORT, PIN, resDDR, resPORT,
          op, bitNumber, value, bitValue, err, retValue, retBool,
          preDDR, prePORT, prePIN>>

regs == <<DDR, PORT, PIN>>

(* ------------------------------ bounds -------------------------------- *)

\* Register types of 1..MaxRegBits bits are explored with every BitsCount,
\* every register content and every argument.
MaxRegBits == 2

(* ------------------------- program constants -------------------------- *)

\* std::uint8_t registers of main.cpp
MainRegBits == 8
\* IOPort<RegisterType, 5> of main.cpp
MainBitsCount == 5
\* PINA = 16 of main.cpp
MainPIN == 16

(* --------------------- unsigned integer arithmetic --------------------- *)

RECURSIVE BitAnd(_, _)
BitAnd(x, y) ==
    IF x = 0 \/ y = 0 THEN 0
    ELSE (x % 2) * (y % 2) + 2 * BitAnd(x \div 2, y \div 2)

RECURSIVE BitOr(_, _)
BitOr(x, y) ==
    IF x = 0 THEN y
    ELSE IF y = 0 THEN x
    ELSE (IF x % 2 = 1 \/ y % 2 = 1 THEN 1 ELSE 0) + 2 * BitOr(x \div 2, y \div 2)

RECURSIVE BitXor(_, _)
BitXor(x, y) ==
    IF x = 0 THEN y
    ELSE IF y = 0 THEN x
    ELSE ((x + y) % 2) + 2 * BitXor(x \div 2, y \div 2)

\* x << n and x >> n on non-negative ints
Shl(x, n) == x * (2 ^ n)
Shr(x, n) == x \div (2 ^ n)

\* the values of RegisterType
RegMax == 2 ^ regBits - 1
\* conversion of a non-negative int to RegisterType
Trunc(x) == x % (2 ^ regBits)
\* ~x, as far as it is visible after the conversion to RegisterType
BitNot(x) == RegMax - Trunc(x)

(* ------------------------------ inputs -------------------------------- *)

\* std::size_t bit numbers run from 0 to ExtraBitNumbers past the last bit
\* of the register, so that every BitsCount has bit numbers >= BitsCount.
ExtraBitNumbers == 1
BitNumbers == 0 .. (regBits - 1 + ExtraBitNumbers)

\* values written to the uint8_t port: all bits, no bit, the active bits,
\* the reserved bits, and two alternating patterns (0xFF 0x00 0x1F 0xE0 0x15 0xAA)
MainValues == {255, 0, 31, 224, 21, 170}
Values == IF regBits = MainRegBits THEN MainValues ELSE 0 .. RegMax

NoError == "none"
InvalidArgument == "invalid_argument"
RuntimeError == "runtime_error"

(* ------------------------- private members ---------------------------- *)

\* const RegisterType bitsMask = (1 << BitsCount) - 1;
bitsMask == Trunc(Shl(1, BitsCount) - 1)

\* the bits of a register above the port's lines
higherBitsOf(reg) == BitAnd(reg, BitNot(bitsMask))

\* mutant: the comparison lets bitNumber = BitsCount through
checkBitNumberOffByOne(n) == n > BitsCount
\* checkBitNumber: TRUE when std::invalid_argument is thrown
checkBitNumber(n) == n >= BitsCount

\* mutant: the value is ignored, the bit is always set
setBitAlwaysSet(reg, n, v) ==
    IF checkBitNumber(n) THEN [thrown |-> TRUE, reg |-> reg]
    ELSE [thrown |-> FALSE, reg |-> Trunc(BitOr(reg, Shl(1, n)))]
\* mutant: the clearing branch lost its complement
setBitNoComplement(reg, n, v) ==
    IF checkBitNumber(n) THEN [thrown |-> TRUE, reg |-> reg]
    ELSE IF v THEN [thrown |-> FALSE, reg |-> Trunc(BitOr(reg, Shl(1, n)))]
    ELSE [thrown |-> FALSE, reg |-> Trunc(BitAnd(reg, Shl(1, n)))]
\* setBit: the register content after the call, and whether it threw
setBit(reg, n, v) ==
    IF checkBitNumber(n) THEN [thrown |-> TRUE, reg |-> reg]
    ELSE IF v THEN [thrown |-> FALSE, reg |-> Trunc(BitOr(reg, Shl(1, n)))]
    ELSE [thrown |-> FALSE, reg |-> Trunc(BitAnd(reg, BitNot(Shl(1, n))))]

(* ------------------- expressions of the public members ----------------- *)

\* mutant: the mask is forgotten
readValueUnmasked == PIN
\* return (*PIN) & bitsMask;
readValue == BitAnd(PIN, bitsMask)

\* mutant: the % 2 is forgotten (any higher bit makes the result true)
readBitValueNoMod(n) == Shr(PIN, n) # 0
\* return ((*PIN) >> bitNumber) % 2;  converted to bool
readBitValue(n) == (Shr(PIN, n) % 2) # 0

\* mutant: DDR is compared without being masked
writeWrongDirectionUnmasked == DDR # bitsMask
\* if (((*DDR) & bitsMask) != bitsMask)
writeWrongDirection == BitAnd(DDR, bitsMask) # bitsMask

\* mutant: the value is not masked
writeResultUnmasked(v) == Trunc(BitOr(v, higherBitsOf(PORT)))
\* (*PORT) = (value & bitsMask) | higherBits;
writeResult(v) == Trunc(BitOr(BitAnd(v, bitsMask), higherBitsOf(PORT)))

\* if ((*DDR) >> bitNumber % 2 == 0): % binds tighter than >>, and >> tighter
\* than ==, so DDR is shifted by bitNumber % 2 and the result compared with 0
writeBitWrongDirection(n) == Shr(DDR, n % 2) = 0

\* (*DDR) |= bitsMask;
outResult == Trunc(BitOr(DDR, bitsMask))

\* mutant: the lines are toggled instead of cleared
inResultToggle == Trunc(BitXor(DDR, bitsMask))
\* (*DDR) &= ~(bitsMask);
inResult == Trunc(BitAnd(DDR, BitNot(bitsMask)))

(* ------------------------------- state -------------------------------- *)

NoCall ==
    /\ op = "constructed" /\ bitNumber = 0 /\ value = 0 /\ bitValue = FALSE
    /\ err = NoError /\ retValue = 0 /\ retBool = FALSE
    /\ preDDR = DDR /\ prePORT = PORT /\ prePIN = PIN

\* a register type of 1..MaxRegBits bits, any BitsCount, any register content
GenericInit ==
    /\ regBits \in 1 .. MaxRegBits
    /\ BitsCount \in 1 .. regBits
    /\ DDR \in 0 .. RegMax
    /\ PORT \in 0 .. RegMax
    /\ PIN \in 0 .. RegMax

\* main.cpp: std::uint8_t DDRA = 0, PORTA = 0, PINA = 16;
\* IOPort<std::uint8_t, 5> portA(&DDRA, &PORTA, &PINA)
MainInit ==
    /\ regBits = MainRegBits
    /\ BitsCount = MainBitsCount
    /\ DDR = 0
    /\ PORT = 0
    /\ PIN = MainPIN

Init ==
    /\ (GenericInit \/ MainInit)
    /\ resDDR = higherBitsOf(DDR)
    /\ resPORT = higherBitsOf(PORT)
    /\ NoCall

\* the call and the registers it is made on
Call(o, n, v, b) ==
    /\ op' = o /\ bitNumber' = n /\ value' = v /\ bitValue' = b
    /\ preDDR' = DDR /\ prePORT' = PORT /\ prePIN' = PIN
    /\ UNCHANGED <<regBits, BitsCount, resDDR, resPORT>>

Return(e, rv, rb) == err' = e /\ retValue' = rv /\ retBool' = rb

(* ------------------------------ actions ------------------------------- *)

\* RegisterType read() const noexcept
read ==
    /\ Call("read", 0, 0, FALSE)
    /\ Return(NoError, readValue, FALSE)
    /\ UNCHANGED regs

\* bool read(const std::size_t bitNumber) const
readBit(n) ==
    /\ Call("readBit", n, 0, FALSE)
    /\ IF checkBitNumber(n)
       THEN Return(InvalidArgument, 0, FALSE)
       ELSE Return(NoError, 0, readBitValue(n))
    /\ UNCHANGED regs

\* void write(const RegisterType& value)
write(v) ==
    /\ Call("write", 0, v, FALSE)
    /\ IF writeWrongDirection
       THEN Return(RuntimeError, 0, FALSE) /\ UNCHANGED regs
       ELSE /\ Return(NoError, 0, FALSE)
            /\ PORT' = writeResult(v)
            /\ UNCHANGED <<DDR, PIN>>

\* void write(const std::size_t bitNumber, const bool value)
writeBit(n, b) ==
    /\ Call("writeBit", n, 0, b)
    /\ IF writeBitWrongDirection(n)
       THEN Return(RuntimeError, 0, FALSE) /\ UNCHANGED regs
       ELSE LET p == setBit(PORT, n, b) IN
            /\ Return(IF p.thrown THEN InvalidArgument ELSE NoError, 0, FALSE)
            /\ PORT' = p.reg
            /\ UNCHANGED <<DDR, PIN>>

\* void out() noexcept
out ==
    /\ Call("out", 0, 0, FALSE)
    /\ Return(NoError, 0, FALSE)
    /\ DDR' = outResult
    /\ UNCHANGED <<PORT, PIN>>

\* void out(const std::size_t bitNumber)
outBit(n) ==
    /\ Call("outBit", n, 0, FALSE)
    /\ LET d == setBit(DDR, n, TRUE) IN
       /\ Return(IF d.thrown THEN InvalidArgument ELSE NoError, 0, FALSE)
       /\ DDR' = d.reg
    /\ UNCHANGED <<PORT, PIN>>

\* void in() noexcept
inp ==
    /\ Call("in", 0, 0, FALSE)
    /\ Return(NoError, 0, FALSE)
    /\ DDR' = inResult
    /\ UNCHANGED <<PORT, PIN>>

\* void in(const std::size_t bitNumber)
inpBit(n) ==
    /\ Call("inBit", n, 0, FALSE)
    /\ LET d == setBit(DDR, n, FALSE) IN
       /\ Return(IF d.thrown THEN InvalidArgument ELSE NoError, 0, FALSE)
       /\ DDR' = d.reg
    /\ UNCHANGED <<PORT, PIN>>

\* the two setBit calls of hiZ and pullUp: the second one is made only when
\* the first one returned
modeBit(o, n, b) ==
    /\ Call(o, n, 0, FALSE)
    /\ LET d == setBit(DDR, n, FALSE) IN
       IF d.thrown
       THEN Return(InvalidArgument, 0, FALSE) /\ UNCHANGED regs
       ELSE LET p == setBit(PORT, n, b) IN
            /\ Return(IF p.thrown THEN InvalidArgument ELSE NoError, 0, FALSE)
            /\ DDR' = d.reg
            /\ PORT' = p.reg
            /\ UNCHANGED PIN

\* void hiZ(const std::size_t bitNumber)
hiZ(n) == modeBit("hiZ", n, FALSE)

\* void pullUp(const std::size_t bitNumber)
pullUp(n) == modeBit("pullUp", n, TRUE)

Next ==
    \/ read
    \/ \E n \in BitNumbers : readBit(n)
    \/ \E v \in Values : write(v)
    \/ \E n \in BitNumbers, b \in BOOLEAN : writeBit(n, b)
    \/ out
    \/ \E n \in BitNumbers : outBit(n)
    \/ inp
    \/ \E n \in BitNumbers : inpBit(n)
    \/ \E n \in BitNumbers : hiZ(n)
    \/ \E n \in BitNumbers : pullUp(n)

Spec == Init /\ [][Next]_vars

(* ----------------------- vocabulary of the claims ---------------------- *)

\* bit k of x
Bit(x, k) == (x \div (2 ^ k)) % 2
\* the bits of x at the lines of the port, x & ((1 << BitsCount) - 1)
Active(x) == x % (2 ^ BitsCount)
\* the bits of x at positions [BitsCount, regBits)
Reserved(x) == x - Active(x)
\* every line is configured as output
AllOutput(x) == Active(x) = 2 ^ BitsCount - 1
\* a and b agree on every bit but bit k
SameButBit(a, b, k) == \A j \in 0 .. (regBits - 1) : j # k => Bit(a, j) = Bit(b, j)
\* the call left the three registers as they were
RegistersUnchanged == DDR = preDDR /\ PORT = prePORT /\ PIN = prePIN
SingleBitOps == {"readBit", "writeBit", "outBit", "inBit", "hiZ", "pullUp"}

(* ------------------------------- claims -------------------------------- *)

\* C1: for bitNumber < BitsCount, write(bitNumber, value) throws
\* runtime_error (WrongDirection) exactly when bit bitNumber of DDR is 0,
\* whatever the other bits of DDR are, and then PORT is unchanged; when that
\* bit is 1 the call does not fail.
C1_WriteBitChecksItsOwnBit ==
    (op = "writeBit" /\ bitNumber < BitsCount) =>
        /\ (err = RuntimeError <=> Bit(preDDR, bitNumber) = 0)
        /\ (err = RuntimeError => PORT = prePORT)
        /\ (Bit(preDDR, bitNumber) = 1 => err = NoError)

\* C2: for bitNumber >= BitsCount, every single-bit operation throws
\* invalid_argument (InvalidBitIndex), never runtime_error and never
\* succeeding, and DDR, PORT and PIN are unchanged by the failed call.
C2_BadBitNumberIsInvalidArgument ==
    (op \in SingleBitOps /\ bitNumber >= BitsCount) =>
        /\ err = InvalidArgument
        /\ RegistersUnchanged

\* C3: in every reachable state the bits of DDR and of PORT at positions
\* [BitsCount, regBits) equal the values they had at construction.
C3_ReservedBitsKept ==
    /\ Reserved(DDR) = resDDR
    /\ Reserved(PORT) = resPORT

\* C3 witness: a whole-port write succeeded with a value whose higher bits
\* differ from the reserved bits of PORT.
C3_Witness ==
    /\ op = "write" /\ err = NoError
    /\ Reserved(value) # resPORT
    /\ BitsCount < regBits

\* C4: when every line is an output, write(value) succeeds and leaves PORT
\* equal to (value & mask) | (old PORT & ~mask), DDR and PIN unchanged; with
\* 8-bit registers, 5 lines, DDR = 0x1F and PORT = 0x00, write(0xFF) leaves
\* PORT = 0x1F.
C4_WriteAllMasks ==
    /\ (op = "write" /\ AllOutput(preDDR)) =>
          /\ err = NoError
          /\ PORT = Active(value) + Reserved(prePORT)
          /\ DDR = preDDR /\ PIN = prePIN
    /\ (op = "write" /\ regBits = 8 /\ BitsCount = 5
           /\ preDDR = 31 /\ prePORT = 0 /\ value = 255) => PORT = 31

\* C4 witness: the 8-bit scenario has happened.
C4_Witness ==
    /\ op = "write" /\ regBits = 8 /\ BitsCount = 5
    /\ preDDR = 31 /\ prePORT = 0 /\ value = 255
    /\ err = NoError /\ PORT = 31

\* C5: write(value) throws runtime_error (WrongDirection) exactly when
\* DDR & mask # mask, the bits of DDR at positions >= BitsCount having no
\* influence, and DDR, PORT and PIN are unchanged by the failed call.
C5_WriteAllWrongDirection ==
    op = "write" =>
        /\ err \in {NoError, RuntimeError}
        /\ (err = RuntimeError <=> ~AllOutput(preDDR))
        /\ (err = RuntimeError => RegistersUnchanged)

\* C5 witness: the write failed on a DDR whose reserved bits are all set
\* and whose only clear bit is line 0.
C5_Witness ==
    /\ op = "write" /\ err = RuntimeError
    /\ BitsCount < regBits
    /\ preDDR = RegMax - 1

\* C6: read() returns exactly PIN & ((1 << BitsCount) - 1), never fails, and
\* leaves DDR, PORT and PIN unchanged.
C6_ReadAllMasked ==
    op = "read" =>
        /\ err = NoError
        /\ retValue = Active(prePIN)
        /\ RegistersUnchanged

\* C6 witness: read() was called on a PIN with a bit set above the lines.
C6_Witness ==
    /\ op = "read" /\ err = NoError
    /\ Reserved(prePIN) # 0
    /\ retValue # prePIN

\* C7: for bitNumber < BitsCount, read(bitNumber) succeeds and returns
\* (PIN >> bitNumber) & 1 as a boolean, and leaves the registers unchanged.
C7_ReadBit ==
    (op = "readBit" /\ bitNumber < BitsCount) =>
        /\ err = NoError
        /\ retBool = (Bit(prePIN, bitNumber) = 1)
        /\ RegistersUnchanged

\* C7 witness: a clear bit below a set bit of PIN was read (8-bit registers,
\* PIN = 16, bit 3).
C7_Witness ==
    /\ op = "readBit" /\ err = NoError
    /\ regBits = 8 /\ prePIN = 16 /\ bitNumber = 3
    /\ retBool = FALSE

\* C8: for bitNumber < BitsCount, pullUp leaves the bit of DDR 0 and the bit
\* of PORT 1, hiZ leaves the bit of DDR 0 and the bit of PORT 0, every other
\* bit of both registers unchanged; from DDR = 0x1F, PORT = 0x00,
\* pullUp(0) gives (0x1E, 0x01) and hiZ(0) after it gives (0x1E, 0x00).
C8_PullUpAndHiZ ==
    /\ (op \in {"pullUp", "hiZ"} /\ bitNumber < BitsCount) =>
          /\ err = NoError
          /\ Bit(DDR, bitNumber) = 0
          /\ Bit(PORT, bitNumber) = (IF op = "pullUp" THEN 1 ELSE 0)
          /\ SameButBit(DDR, preDDR, bitNumber)
          /\ SameButBit(PORT, prePORT, bitNumber)
          /\ PIN = prePIN
    /\ (op = "pullUp" /\ regBits = 8 /\ bitNumber = 0
           /\ preDDR = 31 /\ prePORT = 0) => (DDR = 30 /\ PORT = 1)
    /\ (op = "hiZ" /\ regBits = 8 /\ bitNumber = 0
           /\ preDDR = 30 /\ prePORT = 1) => (DDR = 30 /\ PORT = 0)

\* C8 witness: hiZ(0) was called on the state pullUp(0) leaves in the
\* scenario.
C8_Witness ==
    /\ op = "hiZ" /\ regBits = 8 /\ BitsCount = 5 /\ bitNumber = 0
    /\ preDDR = 30 /\ prePORT = 1
    /\ DDR = 30 /\ PORT = 0

\* C9: out() and in() never fail; after out() every line is an output, after
\* in() every line is an input; a second call in a row would leave DDR as
\* the first call left it; PORT and PIN are unchanged by both.
C9_WholePortDirection ==
    /\ op = "out" =>
          /\ err = NoError
          /\ AllOutput(DDR)
          /\ outResult = DDR
          /\ PORT = prePORT /\ PIN = prePIN
    /\ op = "in" =>
          /\ err = NoError
          /\ Active(DDR) = 0
          /\ inResult = DDR
          /\ PORT = prePORT /\ PIN = prePIN

\* C9 witness: in() was called on a DDR that had output lines and reserved
\* bits set.
C9_Witness ==
    /\ op = "in" /\ err = NoError
    /\ Active(preDDR) # 0
    /\ Reserved(preDDR) # 0

\* C10: a successful single-bit mutator with bitNumber < BitsCount changes
\* only that bit of its target register: write(bitNumber, value) sets the
\* bit of PORT to value and leaves DDR, out(bitNumber) sets the bit of DDR
\* and in(bitNumber) clears it and both leave PORT; every other bit and PIN
\* keep their values.
C10_SingleBitFrame ==
    (op \in {"writeBit", "outBit", "inBit"} /\ err = NoError /\ bitNumber < BitsCount) =>
        /\ PIN = prePIN
        /\ op = "writeBit" =>
              /\ Bit(PORT, bitNumber) = (IF bitValue THEN 1 ELSE 0)
              /\ SameButBit(PORT, prePORT, bitNumber)
              /\ DDR = preDDR
        /\ op = "outBit" =>
              /\ Bit(DDR, bitNumber) = 1
              /\ SameButBit(DDR, preDDR, bitNumber)
              /\ PORT = prePORT
        /\ op = "inBit" =>
              /\ Bit(DDR, bitNumber) = 0
              /\ SameButBit(DDR, preDDR, bitNumber)
              /\ PORT = prePORT

\* C10 witness: in(bitNumber) cleared one output line of several.
C10_Witness ==
    /\ op = "inBit" /\ err = NoError /\ bitNumber < BitsCount
    /\ regBits = 8 /\ preDDR = 31 /\ DDR = 27

====
